---- MODULE Spec2Model ----
(***************************************************************************)
(* A model of hjmpy: ForwardCurve, Market, the two VolatilityModel         *)
(* variants and the HJMModel orchestrator.                                 *)
(*                                                                         *)
(* Numbers.  The program computes in float64.  The model computes in       *)
(* decimal fixed point: a real v is the integer v * Scale, and every       *)
(* multiplication, division, exp and log rounds its result to the nearest  *)
(* representable value, as float64 arithmetic does at its own precision.   *)
(* Maturities and times are years in the same representation.              *)
(***************************************************************************)
EXTENDS Integers, Sequences, FiniteSets, TLC

VARIABLES
    heap,       \* the Market objects that exist, by object id (1..Len(heap))
    markets,    \* HJMModel.markets: insertion-ordered dict, name -> object id
    vol_model,  \* HJMModel.vol_model: the injected VolatilityModel variant
    curve,      \* a free-standing ForwardCurve (the receiver of slice / log_returns)
    outcome     \* what the last call did: returned a value or raised

vars == <<heap, markets, vol_model, curve, outcome>>

----------------------------------------------------------------------------
(* Finite-precision arithmetic                                             *)

Scale == 10000

\* a / b rounded to the nearest integer (b > 0)
RoundDiv(a, b) == (a + (b \div 2)) \div b

\* x * y
Mul(x, y) == RoundDiv(x * y, Scale)

\* x / y, y # 0
Div(x, y) == IF y > 0 THEN RoundDiv(x * Scale, y)
                      ELSE RoundDiv((0 - x) * Scale, 0 - y)

RECURSIVE ExpSeries(_, _, _, _)
ExpSeries(x, n, term, acc) ==
    IF term = 0 THEN acc
    ELSE ExpSeries(x, n + 1, RoundDiv(term * x, n * Scale), acc + term)

\* np.exp
Exp(x) == IF x >= 0 THEN ExpSeries(x, 1, Scale, 0)
                    ELSE RoundDiv(Scale * Scale, ExpSeries(0 - x, 1, Scale, 0))

RECURSIVE LogSearch(_, _, _)
LogSearch(p, lo, hi) ==
    IF hi - lo <= 1
    THEN IF p - Exp(lo) <= Exp(hi) - p THEN lo ELSE hi
    ELSE LET mid == (lo + hi) \div 2
         IN  IF Exp(mid) <= p THEN LogSearch(p, mid, hi)
                              ELSE LogSearch(p, lo, mid)

\* the prices the model's curves are built from (3.0, 3.05, 3.1, 3.2, 3.3)
PriceGrid == {30000, 30500, 31000, 32000, 33000}

\* np.log, for 1 <= p <= e^3: the representable value whose exp is nearest p
\* (tabulated once over the price grid)
LogTable == [p \in PriceGrid |-> LogSearch(p, 0, 3 * Scale)]
Log(p) == LogTable[p]

\* the result of a float computation that may have degenerated to nan
NaN == [nan |-> TRUE, v |-> 0]
Num(v) == [nan |-> FALSE, v |-> v]

Abs(x) == IF x < 0 THEN 0 - x ELSE x

\* the rounding tolerance of the arithmetic above on the values the model uses
Tol == Scale \div 2000
Close(a, b) == Abs(a - b) <= Tol

----------------------------------------------------------------------------
(* Sequences                                                               *)

Last(s) == s[Len(s)]

\* the elements of s at the positions where keep[i] holds, in order (a[mask])
RECURSIVE Masked(_, _)
Masked(s, keep) ==
    IF s = <<>> THEN <<>>
    ELSE (IF Head(keep) THEN <<Head(s)>> ELSE <<>>) \o Masked(Tail(s), Tail(keep))

RECURSIVE SumSeq(_)
SumSeq(s) == IF s = <<>> THEN 0 ELSE Head(s) + SumSeq(Tail(s))

----------------------------------------------------------------------------
(* ForwardCurve                                                            *)

\* what a call does: it returns a value or raises
\* (handed: the matrices passed on to the volatility model's calibrate)
Ok(op, args, v) ==
    [op |-> op, args |-> args, status |-> "ok", exc |-> "", value |-> v, handed |-> <<>>]
Raise(op, args, e) ==
    [op |-> op, args |-> args, status |-> "raise", exc |-> e, value |-> <<>>, handed |-> <<>>]
NoCall == Ok("none", <<>>, <<>>)

\* ForwardCurve.__init__: interp1d(dates, log(prices), kind='linear') refuses
\* arrays of different lengths and arrays with no entry.
CanConstruct(dates, prices) == Len(dates) = Len(prices) /\ Len(dates) >= 1

ForwardCurve(dates, prices) == [dates |-> dates, prices |-> prices]

\* np.argsort(x, kind="mergesort"): the positions of x in ascending order, stable
RECURSIVE ArgSort(_, _)
ArgSort(x, todo) ==
    IF todo = {} THEN <<>>
    ELSE LET i == CHOOSE a \in todo :
                    \A b \in todo : x[a] < x[b] \/ (x[a] = x[b] /\ a <= b)
         IN  <<i>> \o ArgSort(x, todo \ {i})

\* np.searchsorted(x, v): the number of entries of the sorted x below v
SearchSorted(x, v) == Cardinality({i \in 1..Len(x) : x[i] < v})

\* np.clip(a, lo, hi)
Clip(a, lo, hi) == IF hi < lo THEN hi ELSE IF a < lo THEN lo ELSE IF a > hi THEN hi ELSE a

\* self._interp(T): interp1d's linear evaluation with fill_value="extrapolate",
\* over (sorted dates, log(prices)); 0-based positions as in the library.
interp(c, T) ==
    LET n   == Len(c.dates)
        ind == ArgSort(c.dates, 1..n)
        x   == [i \in 1..n |-> c.dates[ind[i]]]
        y   == [i \in 1..n |-> Log(c.prices[ind[i]])]
        hi  == Clip(SearchSorted(x, T), 1, n - 1)
        lo  == hi - 1
        \* a negative position counts from the end
        at(k) == IF k < 0 THEN n + k + 1 ELSE k + 1
        xlo == x[at(lo)]
        xhi == x[at(hi)]
    IN  IF xhi = xlo THEN NaN     \* 0/0: one point, or T between equal dates
        ELSE Num(Mul(Div(y[at(hi)] - y[at(lo)], xhi - xlo), T - xlo) + y[at(lo)])

get_forward(c, T) ==
    LET logp == interp(c, T)
    IN  IF logp.nan THEN NaN ELSE Num(Exp(logp.v))

\* np.diff taken the other way round
log_returns_reversed(c) ==
    [i \in 1..(Len(c.prices) - 1) |-> Log(c.prices[i]) - Log(c.prices[i + 1])]

\* np.diff(np.log(self.prices))
log_returns(c) ==
    [i \in 1..(Len(c.prices) - 1) |-> Log(c.prices[i + 1]) - Log(c.prices[i])]

\* mask = (self.dates >= start) & (self.dates <= end)
slice_mask(c, start, end) ==
    [i \in 1..Len(c.dates) |-> c.dates[i] >= start /\ c.dates[i] <= end]

\* ForwardCurve.slice: the constructor runs on the masked arrays
slice(c, start, end) ==
    LET mask == slice_mask(c, start, end)
        d    == Masked(c.dates, mask)
        p    == Masked(c.prices, mask)
    IN  IF CanConstruct(d, p)
        THEN Ok("slice", <<start, end>>, ForwardCurve(d, p))
        ELSE Raise("slice", <<start, end>>, "ValueError")

----------------------------------------------------------------------------
(* Python dicts: insertion-ordered, a key assigned again keeps its place   *)

DictHas(d, k) == \E i \in 1..Len(d) : d[i].key = k

DictGet(d, k) == d[CHOOSE i \in 1..Len(d) : d[i].key = k].val

\* d[k] = v, keeping the first value ever stored under k (not what dicts do)
DictSetDefault(d, k, v) ==
    IF DictHas(d, k) THEN d ELSE Append(d, [key |-> k, val |-> v])

\* d[k] = v
DictSet(d, k, v) ==
    IF DictHas(d, k)
    THEN [i \in 1..Len(d) |-> IF d[i].key = k THEN [key |-> k, val |-> v] ELSE d[i]]
    ELSE Append(d, [key |-> k, val |-> v])

DictValues(d) == [i \in 1..Len(d) |-> d[i].val]

----------------------------------------------------------------------------
(* Market                                                                  *)

None == [none |-> TRUE]

\* Market.__init__
Market(name) == [name |-> name, curves |-> <<>>]

\* Market.add_forward_curve
add_forward_curve(m, curve_name, c) == [m EXCEPT !.curves = DictSet(@, curve_name, c)]

\* Market.get_curve: self.curves.get(curve_name)
get_curve(m, curve_name) ==
    IF DictHas(m.curves, curve_name) THEN DictGet(m.curves, curve_name) ELSE None

----------------------------------------------------------------------------
(* VolatilityModel variants                                                *)

Half == Scale \div 2

\* ExponentialVolatilityModel.__init__
ExponentialVolatilityModel(gamma, k) == [kind |-> "Exponential", gamma |-> gamma, k |-> k]

\* MultiFactorVolatilityModel.__init__
MultiFactorVolatilityModel(n_factors) ==
    [kind |-> "MultiFactor", n_factors |-> n_factors,
     components_ |-> None, explained_variance_ |-> None]

\* a float, or an ndarray of floats
Scalar(v) == [ndarray |-> FALSE, v |-> v]
NdArray(v) == [ndarray |-> TRUE, v |-> v]

\* ExponentialVolatilityModel.sigma
sigma_exponential(vm, t, T) ==
    LET tau == T - t
    IN  Scalar(Mul(vm.gamma, Exp(Mul(0 - vm.k, tau))))

\* MultiFactorVolatilityModel.sigma with the calibrated loadings wired in
sigma_multifactor_loaded(vm, t, T) ==
    LET tau == T - t
    IN  IF vm.components_ = None
        THEN NdArray([i \in 1..vm.n_factors |-> Exp(Mul(0 - Half, tau))])
        ELSE NdArray([i \in 1..vm.n_factors |->
                        Mul(Exp(Mul(0 - Half, tau)), Scale \div vm.components_.shape[2])])

\* MultiFactorVolatilityModel.sigma
sigma_multifactor(vm, t, T) ==
    LET tau == T - t
    IN  NdArray([i \in 1..vm.n_factors |-> Exp(Mul(0 - Half, tau))])

\* self.vol_model.sigma(t, T), dispatched on the injected variant
sigma(vm, t, T) ==
    IF vm.kind = "Exponential" THEN sigma_exponential(vm, t, T)
                               ELSE sigma_multifactor(vm, t, T)

\* the shape of a matrix held as a sequence of rows
Rows(mat) == Len(mat)
Cols(mat) == IF mat = <<>> THEN 0 ELSE Len(mat[1])

\* MultiFactorVolatilityModel.calibrate.  PCA(n_components).fit refuses a
\* matrix with fewer rows or columns than n_components; the loadings it
\* computes are kept by their shape only.
calibrate_multifactor(vm, mat) ==
    IF vm.n_factors > Rows(mat) \/ vm.n_factors > Cols(mat)
    THEN [status |-> "raise", exc |-> "ValueError", vm |-> vm]
    ELSE [status |-> "ok", exc |-> "",
          vm |-> [vm EXCEPT !.components_ = [shape |-> <<vm.n_factors, Cols(mat)>>],
                            !.explained_variance_ = [shape |-> <<vm.n_factors>>]]]

\* self.vol_model.calibrate(*args), dispatched on the injected variant.
\* ExponentialVolatilityModel.calibrate(time_to_maturities, vols) takes two
\* positional arguments: a call with any other number raises TypeError
\* before its body runs (its body, a curve_fit, is not modelled).
vol_calibrate(vm, args) ==
    IF vm.kind = "Exponential"
    THEN [status |-> "raise",
          exc |-> IF Len(args) = 2 THEN "NotModelled" ELSE "TypeError", vm |-> vm]
    ELSE IF Len(args) # 1 THEN [status |-> "raise", exc |-> "TypeError", vm |-> vm]
    ELSE calibrate_multifactor(vm, args[1])

----------------------------------------------------------------------------
(* HJMModel                                                                *)

\* self.markets.setdefault(market.name, market)
add_market_first_wins(ms, name, id) == DictSetDefault(ms, name, id)

\* HJMModel.add_market: self.markets[market.name] = market
add_market_result(ms, name, id) == DictSet(ms, name, id)

RECURSIVE Flatten(_)
Flatten(ss) == IF ss = <<>> THEN <<>> ELSE Head(ss) \o Flatten(Tail(ss))

\* the curves calibrate visits, in its iteration order
AllCurves(ms, hp) ==
    Flatten([i \in 1..Len(ms) |-> DictValues(hp[ms[i].val].curves)])

\* the list `returns` after the loops
UsableReturns(ms, hp) ==
    LET usable == SelectSeq(AllCurves(ms, hp), LAMBDA c : Len(c.prices) > 1)
    IN  [j \in 1..Len(usable) |-> log_returns(usable[j])]

\* min(len(r) for r in returns), returns not empty
MinLen(returns) ==
    CHOOSE n \in {Len(returns[j]) : j \in 1..Len(returns)} :
        \A j \in 1..Len(returns) : n <= Len(returns[j])

\* r[:n]
Leading(r, n) == SubSeq(r, 1, n)

\* r[-n:]  (r[-0:] is all of r)
Trailing(r, n) == IF n = 0 THEN r ELSE SubSeq(r, Len(r) - n + 1, Len(r))

\* np.column_stack([r[-min_len:] for r in returns]): rows = observations
column_stack(returns, min_len) ==
    [i \in 1..min_len |-> [j \in 1..Len(returns) |-> Trailing(returns[j], min_len)[i]]]

\* HJMModel.calibrate with min(..., default=0): nothing to align is no error
calibrate_result_default(ms, hp, vm) ==
    LET returns == UsableReturns(ms, hp)
        mat     == IF returns = <<>> THEN <<>> ELSE column_stack(returns, MinLen(returns))
        r       == vol_calibrate(vm, <<mat>>)
    IN  [out |-> IF r.status = "ok"
                 THEN [Ok("calibrate", <<>>, None) EXCEPT !.handed = <<mat>>]
                 ELSE [Raise("calibrate", <<>>, r.exc) EXCEPT !.handed = <<mat>>],
         vm |-> r.vm]

\* HJMModel.calibrate: the outcome and the volatility model afterwards
calibrate_result(ms, hp, vm) ==
    LET returns == UsableReturns(ms, hp)
    IN  IF returns = <<>>
        THEN [out |-> [Raise("calibrate", <<>>, "ValueError") EXCEPT !.handed = <<>>],
              vm |-> vm]
        ELSE LET mat == column_stack(returns, MinLen(returns))
                 r   == vol_calibrate(vm, <<mat>>)
             IN  [out |-> IF r.status = "ok"
                          THEN [Ok("calibrate", <<>>, None) EXCEPT !.handed = <<mat>>]
                          ELSE [Raise("calibrate", <<>>, r.exc) EXCEPT !.handed = <<mat>>],
                  vm |-> r.vm]

\* self.markets.get(market_name) in place of self.markets[market_name]
lookup_by_get(ms, hp, market_name, curve_name) ==
    IF ~DictHas(ms, market_name) THEN [status |-> "raise", exc |-> "AttributeError"]
    ELSE LET c == get_curve(hp[DictGet(ms, market_name)], curve_name)
         IN  IF c = None THEN [status |-> "raise", exc |-> "AttributeError"]
                         ELSE [status |-> "ok", curve |-> c]

\* self.markets[market_name], then market.get_curve(curve_name), then curve.dates
lookup(ms, hp, market_name, curve_name) ==
    IF ~DictHas(ms, market_name) THEN [status |-> "raise", exc |-> "KeyError"]
    ELSE LET c == get_curve(hp[DictGet(ms, market_name)], curve_name)
         IN  IF c = None THEN [status |-> "raise", exc |-> "AttributeError"]
                         ELSE [status |-> "ok", curve |-> c]

\* x * y for a float x that may be nan
FMul(x, y) == IF x.nan THEN NaN ELSE Num(Mul(x.v, y))

\* forward_dynamics with sigma in place of sigma**2
forward_dynamics_no_square(vm, c, t0, t1) ==
    LET T   == Last(c.dates)
        sg  == sigma(vm, t0, T)
        var == IF sg.ndarray THEN Mul(SumSeq(sg.v), t1 - t0) ELSE Mul(sg.v, t1 - t0)
    IN  FMul(get_forward(c, T), Exp(Mul(0 - Half, var)))

\* HJMModel.forward_dynamics, once the curve is found
forward_dynamics_value(vm, c, t0, t1) ==
    LET T     == Last(c.dates)
        sg    == sigma(vm, t0, T)
        var   == IF sg.ndarray
                 THEN Mul(SumSeq([i \in 1..Len(sg.v) |-> Mul(sg.v[i], sg.v[i])]), t1 - t0)
                 ELSE Mul(Mul(sg.v, sg.v), t1 - t0)
        F0    == get_forward(c, T)
        drift == Mul(0 - Half, var)
    IN  FMul(F0, Exp(drift))

\* price_forward evolving the price from 0 to t
price_forward_evolved(vm, c, t) == forward_dynamics_value(vm, c, 0, t)

\* HJMModel.price_forward, once the curve is found
price_forward_value(vm, c, t) ==
    LET T == Last(c.dates)
    IN  get_forward(c, T)

----------------------------------------------------------------------------
(* Bounds and input sets                                                   *)

MaxPts == 3                      \* points of a free-standing curve
MaxCurves == 2                   \* curves held by all Market objects together
MaxFactors == 2                  \* n_factors of a MultiFactorVolatilityModel

Years(n) == n * Scale
CurveDates == {Years(1), Years(2), Years(3)}
CurvePrices == {30000, 30500, 31000}          \* 3.0, 3.05, 3.1
SliceBounds == {Years(1), Years(2), Years(3), Years(4)}

MarketIds == {1, 2}
MarketNames == {"Gas", "Power"}
CurveNames == {"front", "back"}
\* names asked for, registered or not
AskedMarkets == MarketNames \cup {"Coal"}
AskedCurves == CurveNames \cup {"spot"}

\* the curve of the end-to-end example, and shorter ones
GasCurve == ForwardCurve(<<Years(1), Years(2), Years(3), Years(4), Years(5)>>,
                         <<30000, 31000, 30500, 32000, 33000>>)
ShortCurve == ForwardCurve(<<Years(1), Years(2), Years(3)>>, <<32000, 30000, 31000>>)
\* dates stored out of order (not refused by the constructor)
UnsortedCurve == ForwardCurve(<<Years(3), Years(1), Years(2)>>, <<31000, 33000, 30500>>)
OnePointCurve == ForwardCurve(<<Years(1)>>, <<30000>>)
Catalogue == {GasCurve, ShortCurve, OnePointCurve}

\* the volatility models injected at construction: gamma=0.1,k=0; gamma=0.2,k=0.5
VolModels ==
    {ExponentialVolatilityModel(1000, 0), ExponentialVolatilityModel(2000, 5000)}
      \cup {MultiFactorVolatilityModel(n) : n \in 1..MaxFactors}

T0s == {Years(0), Years(1)}
T1s == {Years(0), Years(1), Years(2)}

----------------------------------------------------------------------------
(* The free-standing curve: slice and log_returns                          *)

NoMarkets == <<>>
NoVolModel == [kind |-> "none"]

InitCurve ==
    /\ \E n \in 1..MaxPts :
         \E d \in [1..n -> CurveDates], p \in [1..n -> CurvePrices] :
            curve = ForwardCurve(d, p)
    /\ heap = <<>>
    /\ markets = NoMarkets
    /\ vol_model = NoVolModel
    /\ outcome = NoCall

CallSlice ==
    \E start \in SliceBounds, end \in SliceBounds :
        /\ outcome' = slice(curve, start, end)
        /\ UNCHANGED <<curve, heap, markets, vol_model>>

CallLogReturns ==
    /\ outcome' = Ok("log_returns", <<>>, log_returns(curve))
    /\ UNCHANGED <<curve, heap, markets, vol_model>>

NextCurve == CallSlice \/ CallLogReturns

SpecCurve == InitCurve /\ [][NextCurve]_vars

----------------------------------------------------------------------------
(* Building and calibrating an HJMModel                                    *)

TotalCurves(hp) == SumSeq([i \in 1..Len(hp) |-> Len(hp[i].curves)])

Init ==
    /\ heap = <<>>
    /\ markets = NoMarkets
    /\ vol_model \in VolModels
    /\ curve = None
    /\ outcome = NoCall

\* Market(name): a new Market object
NewMarket ==
    \E name \in MarketNames :
        /\ Len(heap) + 1 \in MarketIds
        /\ heap' = Append(heap, Market(name))
        /\ outcome' = Ok("Market", <<name>>, None)
        /\ UNCHANGED <<markets, vol_model, curve>>

\* market.add_forward_curve(curve_name, ForwardCurve(...)) on an existing Market
AddForwardCurve ==
    \E id \in 1..Len(heap), curve_name \in CurveNames, c \in Catalogue :
        /\ TotalCurves(heap) < MaxCurves \/ DictHas(heap[id].curves, curve_name)
        /\ heap' = [heap EXCEPT ![id] = add_forward_curve(@, curve_name, c)]
        /\ outcome' = Ok("add_forward_curve", <<curve_name>>, None)
        /\ UNCHANGED <<markets, vol_model, curve>>

\* model.add_market(market); args: the object, and the object its name
\* was mapped to before the call (0: none)
AddMarket ==
    \E id \in 1..Len(heap) :
        LET name == heap[id].name
            was  == IF DictHas(markets, name) THEN DictGet(markets, name) ELSE 0
        IN  /\ markets' = add_market_result(markets, name, id)
            /\ outcome' = Ok("add_market", <<id, was>>, None)
            /\ UNCHANGED <<heap, vol_model, curve>>

\* model.calibrate()
Calibrate ==
    LET r == calibrate_result(markets, heap, vol_model)
    IN  /\ vol_model' = r.vm
        /\ outcome' = r.out
        /\ UNCHANGED <<heap, markets, curve>>

Next == NewMarket \/ AddForwardCurve \/ AddMarket \/ Calibrate

Spec == Init /\ [][Next]_vars

----------------------------------------------------------------------------
(* Querying a populated HJMModel                                           *)

\* Markets as an external caller populates them
PopulatedMarkets ==
    { add_forward_curve(add_forward_curve(Market("Gas"), "front", GasCurve),
                        "back", ShortCurve),
      add_forward_curve(Market("Gas"), "front", OnePointCurve),
      add_forward_curve(Market("Power"), "back", UnsortedCurve),
      Market("Power") }

\* model.add_market on each object of hp in turn
RECURSIVE Registered(_, _)
Registered(hp, n) ==
    IF n = 0 THEN NoMarkets
    ELSE add_market_result(Registered(hp, n - 1), hp[n].name, n)

InitQuery ==
    /\ \E n \in {0} \cup MarketIds : \E hp \in [1..n -> PopulatedMarkets] :
            /\ heap = hp
            /\ markets = Registered(hp, n)
    /\ vol_model \in VolModels
    /\ curve = None
    /\ outcome = NoCall

\* model.forward_dynamics(market_name, curve_name, t0, t1)
ForwardDynamics ==
    \E market_name \in AskedMarkets, curve_name \in AskedCurves, t0 \in T0s, t1 \in T1s :
        LET args == <<market_name, curve_name, t0, t1>>
            found == lookup(markets, heap, market_name, curve_name)
        IN  /\ outcome' = IF found.status = "raise"
                          THEN Raise("forward_dynamics", args, found.exc)
                          ELSE Ok("forward_dynamics", args,
                                  forward_dynamics_value(vol_model, found.curve, t0, t1))
            /\ UNCHANGED <<heap, markets, vol_model, curve>>

\* model.price_forward(market_name, curve_name, t)
PriceForward ==
    \E market_name \in AskedMarkets, curve_name \in AskedCurves, t \in T1s :
        LET args == <<market_name, curve_name, t>>
            found == lookup(markets, heap, market_name, curve_name)
        IN  /\ outcome' = IF found.status = "raise"
                          THEN Raise("price_forward", args, found.exc)
                          ELSE Ok("price_forward", args,
                                  price_forward_value(vol_model, found.curve, t))
            /\ UNCHANGED <<heap, markets, vol_model, curve>>

\* model.vol_model.sigma(t, T)
CallSigma ==
    \E t \in T0s, T \in CurveDates :
        /\ outcome' = Ok("sigma", <<t, T>>, sigma(vol_model, t, T))
        /\ UNCHANGED <<heap, markets, vol_model, curve>>

NextQuery == ForwardDynamics \/ PriceForward \/ CallSigma \/ Calibrate

SpecQuery == InitQuery /\ [][NextQuery]_vars

----------------------------------------------------------------------------
(* Claims about the free-standing curve (SpecCurve)                        *)

\* the positions of the stored dates inside [start, end], ascending
InWindow(c, start, end) ==
    {i \in 1..Len(c.dates) : start <= c.dates[i] /\ c.dates[i] <= end}

\* sub holds exactly the points of c at the positions in keep, in stored order
IsSubCurve(sub, c, keep) ==
    /\ Len(sub.dates) = Cardinality(keep)
    /\ Len(sub.prices) = Cardinality(keep)
    /\ \A j \in 1..Len(sub.dates) :
          \E i \in keep :
             /\ Cardinality({h \in keep : h < i}) = j - 1
             /\ sub.dates[j] = c.dates[i]
             /\ sub.prices[j] = c.prices[i]

\* C6: slice(start, end) returns a new curve holding exactly the stored
\* points with start <= date <= end, in stored order, prices matching.
C6_SliceReturnsWindow ==
    outcome.op = "slice" =>
        /\ outcome.status = "ok"
        /\ IsSubCurve(outcome.value, curve, InWindow(curve, outcome.args[1], outcome.args[2]))

\* C6, where some stored date lies inside the window: the claim holds there.
C6_SliceOfNonEmptyWindow ==
    (outcome.op = "slice" /\ InWindow(curve, outcome.args[1], outcome.args[2]) # {}) =>
        /\ outcome.status = "ok"
        /\ IsSubCurve(outcome.value, curve, InWindow(curve, outcome.args[1], outcome.args[2]))

\* C6: the source curve is not changed by slice.
C6_SliceLeavesSource == [][outcome'.op = "slice" => curve' = curve]_vars

\* exp(cumsum(log(p0), r1, r2, ...))
Reconstructed(p0, r) ==
    [i \in 1..(Len(r) + 1) |-> Exp(Log(p0) + SumSeq(SubSeq(r, 1, i - 1)))]

LogReturnsCalled == outcome.op = "log_returns" /\ Len(curve.prices) >= 2

\* C7 as stated: log_returns() has len(prices) - 1 elements, the i-th being
\* log(prices[i+1]) - log(prices[i]), and exp of the cumulative sum, started
\* at log(prices[0]), gives back the prices exactly.
C7_ReconstructsExactly ==
    LogReturnsCalled =>
        /\ Len(outcome.value) = Len(curve.prices) - 1
        /\ \A i \in 1..Len(outcome.value) :
              outcome.value[i] = Log(curve.prices[i + 1]) - Log(curve.prices[i])
        /\ Reconstructed(curve.prices[1], outcome.value) = curve.prices

\* C7 amended: the same, with the prices given back up to the rounding of
\* the arithmetic instead of exactly.
C7_ReconstructsToRounding ==
    LogReturnsCalled =>
        /\ Len(outcome.value) = Len(curve.prices) - 1
        /\ \A i \in 1..Len(outcome.value) :
              outcome.value[i] = Log(curve.prices[i + 1]) - Log(curve.prices[i])
        /\ \A i \in 1..Len(curve.prices) :
              Close(Reconstructed(curve.prices[1], outcome.value)[i], curve.prices[i])

\* a curve of 3 points with a rise and a fall has had its returns taken
C7_Witness ==
    /\ LogReturnsCalled
    /\ Len(curve.prices) >= 3
    /\ \E i, j \in 1..Len(outcome.value) : outcome.value[i] > 0 /\ outcome.value[j] < 0

----------------------------------------------------------------------------
(* Claims about building and calibrating (Spec)                            *)

\* the curves of the registered markets with at least 2 stored prices
UsableCurves == SelectSeq(AllCurves(markets, heap), LAMBDA c : Len(c.prices) >= 2)

CalibrateCalled == outcome.op = "calibrate"

\* C1: with at least one curve of 2 or more prices, calibrate hands the
\* volatility model one matrix; it has L rows, L the least return length,
\* and one column per such curve: the last L of that curve's log returns.
C1_TrailingAlignedMatrix ==
    (CalibrateCalled /\ UsableCurves # <<>>) =>
        /\ Len(outcome.handed) = 1
        /\ LET mat  == outcome.handed[1]
               lens == {Len(UsableCurves[j].prices) - 1 : j \in 1..Len(UsableCurves)}
               L    == CHOOSE n \in lens : \A m \in lens : n <= m
           IN  /\ Len(mat) = L
               /\ \A i \in 1..L :
                     /\ Len(mat[i]) = Len(UsableCurves)
                     /\ \A j \in 1..Len(UsableCurves) :
                           LET r == log_returns(UsableCurves[j])
                           IN  mat[i][j] = r[Len(r) - L + i]

\* two curves with return sequences of different lengths were aligned
C1_Witness ==
    /\ CalibrateCalled
    /\ Len(UsableCurves) >= 2
    /\ Len(outcome.handed) = 1
    /\ \E j \in 1..Len(UsableCurves) :
          Len(UsableCurves[j].prices) - 1 > Len(outcome.handed[1])

\* C5, the outcome: with no curve of 2 or more prices calibrate raises and
\* the volatility model's calibrate is not invoked.
C5_Raises ==
    (CalibrateCalled /\ UsableCurves = <<>>) =>
        /\ outcome.status = "raise"
        /\ outcome.handed = <<>>

\* C5, the parameters: such a call leaves the volatility model as it was.
C5_Frame ==
    (outcome'.op = "calibrate" /\ UsableCurves = <<>>) => vol_model' = vol_model

\* C5: calibrate fails when no curve yields a return sequence, without
\* invoking the volatility model's calibrate or changing its parameters.
C5_NothingToCalibrate == []C5_Raises /\ [][C5_Frame]_vars

\* a registered market holds a curve, of one price only, and calibrate failed
C5_Witness ==
    /\ CalibrateCalled
    /\ outcome.status = "raise"
    /\ UsableCurves = <<>>
    /\ AllCurves(markets, heap) # <<>>

\* C8, the state: the mapping holds one entry per name, each naming a
\* Market object of that name.
C8_KeysUnique ==
    /\ \A i, j \in 1..Len(markets) : markets[i].key = markets[j].key => i = j
    /\ \A i \in 1..Len(markets) :
          markets[i].val \in 1..Len(heap) /\ heap[markets[i].val].name = markets[i].key

\* C8, the step: add_market maps the market's name to the object added,
\* leaves every other name's entry and the volatility model alone, and
\* nothing but add_market changes the mapping.
C8_Step ==
    /\ outcome'.op = "add_market" =>
          LET id   == outcome'.args[1]
              name == heap[id].name
          IN  /\ DictHas(markets', name) /\ DictGet(markets', name) = id
              /\ \A k \in MarketNames \ {name} :
                    /\ DictHas(markets', k) <=> DictHas(markets, k)
                    /\ DictHas(markets, k) => DictGet(markets', k) = DictGet(markets, k)
              /\ vol_model' = vol_model
    /\ outcome'.op # "add_market" => markets' = markets

\* C8: the market mapping is last-write-wins by name.
C8_LastWriteWins == []C8_KeysUnique /\ [][C8_Step]_vars

\* a second Market object took over the name of a registered one
C8_Witness ==
    /\ outcome.op = "add_market"
    /\ outcome.args[2] # 0
    /\ outcome.args[2] # outcome.args[1]
    /\ Len(markets) = 1

\* C10: with at least one curve of 2 or more prices, calibrate completes
\* for either variant, having handed it the matrix and updated it.
C10_CalibratesEitherVariant ==
    (CalibrateCalled /\ UsableCurves # <<>>) =>
        /\ outcome.status = "ok"
        /\ Len(outcome.handed) = 1
        /\ vol_model.kind = "MultiFactor" => vol_model.components_ # None

----------------------------------------------------------------------------
(* Claims about queries (SpecQuery)                                        *)

Queried == outcome.op \in {"forward_dynamics", "price_forward"}

AskedMarketKnown == \E i \in 1..Len(markets) : markets[i].key = outcome.args[1]

\* the Market object the asked name is mapped to
AskedMarket == heap[DictGet(markets, outcome.args[1])]

AskedCurveKnown ==
    AskedMarketKnown /\ \E i \in 1..Len(AskedMarket.curves) :
                            AskedMarket.curves[i].key = outcome.args[2]

AskedCurve == DictGet(AskedMarket.curves, outcome.args[2])

\* at least 2 points, at different maturities: get_forward is defined
WellFormed(c) ==
    /\ Len(c.dates) >= 2
    /\ \A i, j \in 1..Len(c.dates) : c.dates[i] = c.dates[j] => i = j

\* C2: forward_dynamics returns F0 * exp(-0.5 * variance), F0 the forward
\* at the last stored maturity T, variance = sum of sigma(t0,T)^2 over the
\* factors times (t1 - t0); F0 itself when t1 = t0; 3.3 * exp(-0.005) on
\* terminal price 3.3 with gamma = 0.1, k = 0, t0 = 0, t1 = 1.
C2_ForwardDynamicsFormula ==
    (outcome.op = "forward_dynamics" /\ outcome.status = "ok") =>
        LET c   == AskedCurve
            t0  == outcome.args[3]
            t1  == outcome.args[4]
            T   == c.dates[Len(c.dates)]
            tau == T - t0
            F0  == get_forward(c, T)
            sq  == IF vol_model.kind = "MultiFactor"
                   THEN LET e == Exp(Mul(0 - Half, tau))
                        IN  vol_model.n_factors * Mul(e, e)
                   ELSE LET g == Mul(vol_model.gamma, Exp(Mul(0 - vol_model.k, tau)))
                        IN  Mul(g, g)
            variance == Mul(sq, t1 - t0)
        IN  /\ outcome.value.nan = F0.nan
            /\ ~F0.nan => outcome.value.v = Mul(F0.v, Exp(Mul(0 - Half, variance)))
            /\ t1 = t0 => outcome.value = F0
            /\ ( /\ vol_model = ExponentialVolatilityModel(1000, 0)
                 /\ t0 = Years(0) /\ t1 = Years(1)
                 /\ WellFormed(c) /\ c.prices[Len(c.prices)] = 33000 )
               => ~outcome.value.nan /\ Close(outcome.value.v, 32835)

\* the end-to-end example has been evaluated
C2_Witness ==
    /\ outcome.op = "forward_dynamics" /\ outcome.status = "ok"
    /\ vol_model = ExponentialVolatilityModel(1000, 0)
    /\ outcome.args[3] = Years(0) /\ outcome.args[4] = Years(1)
    /\ AskedCurve = GasCurve
    /\ ~outcome.value.nan

\* C3, the value: price_forward returns the forward at the curve's last
\* stored maturity, whatever t and the volatility model are: the terminal
\* stored price (up to rounding) when the curve is well formed.
C3_TerminalPrice ==
    (outcome.op = "price_forward" /\ outcome.status = "ok") =>
        LET c == AskedCurve
        IN  /\ outcome.value = get_forward(c, c.dates[Len(c.dates)])
            /\ WellFormed(c) =>
                  ~outcome.value.nan /\ Close(outcome.value.v, c.prices[Len(c.prices)])

\* C3, two calls in a row on the same market and curve return the same value
C3_SameForAnyT ==
    ( /\ outcome.op = "price_forward" /\ outcome'.op = "price_forward"
      /\ outcome.status = "ok" /\ outcome'.status = "ok"
      /\ outcome'.args[1] = outcome.args[1] /\ outcome'.args[2] = outcome.args[2] )
    => outcome'.value = outcome.value

\* C3: price_forward returns the terminal stored price and ignores t.
C3_PriceForwardIgnoresT == []C3_TerminalPrice /\ [][C3_SameForAnyT]_vars

\* price_forward at t > 0 on a well-formed curve, after a calibration
C3_Witness ==
    /\ outcome.op = "price_forward" /\ outcome.status = "ok"
    /\ outcome.args[3] > 0
    /\ WellFormed(AskedCurve)
    /\ vol_model.kind = "MultiFactor" /\ vol_model.components_ # None

C4_Fails ==
    Queried =>
        /\ ~AskedMarketKnown =>
              outcome.status = "raise" /\ outcome.exc = "KeyError" /\ outcome.value = <<>>
        /\ (AskedMarketKnown /\ ~AskedCurveKnown) =>
              outcome.status = "raise" /\ outcome.exc = "AttributeError"
                 /\ outcome.value = <<>>
        /\ AskedCurveKnown => outcome.status = "ok"

\* C4, the frame: a query changes neither the mapping, the markets nor the
\* volatility model.
C4_Frame ==
    outcome'.op \in {"forward_dynamics", "price_forward"} =>
        markets' = markets /\ heap' = heap /\ vol_model' = vol_model

C9_SigmaIgnoresCalibration ==
    /\ (outcome.op = "sigma" /\ vol_model.kind = "MultiFactor") =>
          /\ outcome.value.ndarray
          /\ Len(outcome.value.v) = vol_model.n_factors
          /\ \A i \in 1..Len(outcome.value.v) :
                outcome.value.v[i] = Exp(Mul(0 - Half, outcome.args[2] - outcome.args[1]))
    /\ (CalibrateCalled /\ outcome.status = "ok" /\ vol_model.kind = "MultiFactor") =>
          /\ vol_model.components_ # None
          /\ vol_model.explained_variance_ # None

\* sigma was asked of a calibrated multi-factor model
C9_Witness ==
    /\ outcome.op = "sigma"
    /\ vol_model.kind = "MultiFactor"
    /\ vol_model.components_ # None
    /\ outcome.args[2] > outcome.args[1]

====
